---- MODULE Spec2Model ----
(***************************************************************************)
(* Model of src/main.rs: the two per-frame systems of the selection        *)
(* prototype (MouseSystem, MarkSelectedSystem) running over the shared     *)
(* entity/component store, driven by the selection and input services.     *)
(*                                                                         *)
(* Conventions                                                             *)
(*  - An Option<T> is a sequence of length <= 1: <<>> is None, <<v>> is     *)
(*    Some(v).  A component storage is a function from entity index to     *)
(*    such an option (<<>>: the entity has no such component).             *)
(*  - A real number is held in fixed point, an integer count of 1/50 of a  *)
(*    unit (Fx); a quotient or a root that is not such a multiple is       *)
(*    rounded to the nearest one.  A translation is a record               *)
(*    [nan, x, y]; nan = TRUE is the value 0.0/0.0 produces.               *)
(*  - One frame is PollInput; MouseSystem_run; MarkSelectedSystem_run;     *)
(*    Maintain.  Deletions made through Entities inside a system are       *)
(*    queued (killed) and applied by Maintain at the end of the frame.     *)
(***************************************************************************)
EXTENDS Integers, Sequences, FiniteSets

VARIABLES
    pc,               \* position in the frame: "env", "mouse", "mark", "maintain"
    alive,            \* Entities: the set of live entity indices
    cache,            \* Entities: freed indices awaiting reuse
    killed,           \* Entities: indices deleted during the frame, not yet merged
    selecteds,        \* storage of Selected (owned by the UI service)
    transforms,       \* storage of Transform
    ui_transforms,    \* storage of UiTransform (local_x, local_y)
    some_objects,     \* storage of SomeObject (ordered_to)
    sprite_render,    \* storage of SpriteRender (sprite_number)
    marked,           \* storage of MarkedAsSelected (index)
    input,            \* InputHandler: [move: Option<bool>, mouse: Option<(x, y)>]
    screen_dimension, \* ScreenDimensions: [width, height, hidpi]
    moves,            \* number of frames in which some translation was advanced
    pre_step,         \* history: transforms as MouseSystem found them this frame
    marker_entity     \* history: Option<[source, marker, t]> built by the last lifecycle pass

vars == <<pc, alive, cache, killed, selecteds, transforms, ui_transforms,
          some_objects, sprite_render, marked, input, screen_dimension,
          moves, pre_step, marker_entity>>

\* ------------------------------------------------------------------ bounds

\* Highest entity index of the store.
MaxIndex == 4

\* Frames in which entities are advanced (positions are unbounded otherwise).
MaxMoves == 2

Index == 0..MaxIndex

\* ------------------------------------------------------------- arithmetic

\* A real number in fixed point.
Fx(n) == n * 50

\* a / b rounded to the nearest integer, b > 0.
RDiv(a, b) == IF a >= 0 THEN (2 * a + b) \div (2 * b)
              ELSE -((2 * (-a) + b) \div (2 * b))

\* Fixed-point quotient of two fixed-point numbers, b # 0.
FDiv(a, b) == IF b > 0 THEN RDiv(a * Fx(1), b) ELSE RDiv((-a) * Fx(1), -b)

RECURSIVE SqrtSearch(_, _, _)
SqrtSearch(n, lo, hi) ==
    IF lo >= hi THEN lo
    ELSE LET mid == (lo + hi + 1) \div 2
         IN IF mid * mid <= n THEN SqrtSearch(n, mid, hi)
            ELSE SqrtSearch(n, lo, mid - 1)

\* sqrt of n >= 0, rounded to the nearest integer.
Sqrt(n) == LET r == SqrtSearch(n, 0, 46340)
           IN IF n - r * r > r THEN r + 1 ELSE r

Vec(x, y) == [nan |-> FALSE, x |-> x, y |-> y]
NaNVec == [nan |-> TRUE, x |-> 0, y |-> 0]

\* A vector sum; nan absorbs.
VAdd(p, d) == IF p.nan \/ d.nan THEN NaNVec ELSE Vec(p.x + d.x, p.y + d.y)

\* ----------------------------------------------------------------- steering

\* Divisor of the step: movement_length = 5. * |movement_vec|.
StepFactor == 5

\* MovementStep with the factor 5 of movement_length left out.
MovementStep_UnitStep(p, t) ==
    IF p.nan THEN NaNVec
    ELSE LET movement_vec == <<t[1] - p.x, t[2] - p.y>>
             movement_length == Sqrt(movement_vec[1] * movement_vec[1]
                                     + movement_vec[2] * movement_vec[2])
         IN IF movement_length = 0 THEN NaNVec
            ELSE Vec(FDiv(movement_vec[1], movement_length),
                     FDiv(movement_vec[2], movement_length))

\* What one steering step adds to a translation p ordered to target t:
\* movement_vec / movement_length, with movement_length = 5 * |movement_vec|.
\* A zero movement_vec gives 0.0 / 0.0 on both axes.
MovementStep(p, t) ==
    IF p.nan THEN NaNVec
    ELSE LET movement_vec == <<t[1] - p.x, t[2] - p.y>>
             movement_length ==
                 StepFactor * Sqrt(movement_vec[1] * movement_vec[1]
                                   + movement_vec[2] * movement_vec[2])
         IN IF movement_length = 0 THEN NaNVec
            ELSE Vec(FDiv(movement_vec[1], movement_length),
                     FDiv(movement_vec[2], movement_length))

\* ScreenToWorld without the flip of the y axis.
ScreenToWorld_NoFlip(mouse, sd) ==
    LET hidpi_factor == sd.hidpi
        screen_size_x == FDiv(sd.width, hidpi_factor)
        screen_size_y == FDiv(sd.height, hidpi_factor)
    IN <<FDiv(mouse[1], hidpi_factor) - FDiv(screen_size_x, Fx(2)),
         FDiv(mouse[2], hidpi_factor) - FDiv(screen_size_y, Fx(2))>>

\* The world-space target of a pointer position under the screen dimensions.
ScreenToWorld(mouse, sd) ==
    LET hidpi_factor == sd.hidpi
        screen_size_x == FDiv(sd.width, hidpi_factor)
        screen_size_y == FDiv(sd.height, hidpi_factor)
    IN <<FDiv(mouse[1], hidpi_factor) - FDiv(screen_size_x, Fx(2)),
         (-FDiv(mouse[2], hidpi_factor)) + FDiv(screen_size_y, Fx(2))>>

\* ------------------------------------------------------------------- store

\* Entities::is_alive(Entities::entity(i)): index i is resolved to the entity
\* that occupies it now; an entity deleted in this frame is alive until Maintain.
IsAlive(i) == i \in alive

\* Entity indices of on_start, in creation order.
CameraId == 0
LeftId == 1
RightId == 2

\* sprite_number of the left, right and selection-frame sprites.
LeftSprite == 0
RightSprite == 1
SelectedSprite == 2

\* Translation of the right object.
RightStart == 100

NoComponents == [i \in Index |-> <<>>]

\* The store as Example::on_start leaves it.
OnStart ==
    /\ alive = {CameraId, LeftId, RightId}
    /\ cache = {}
    /\ killed = {}
    /\ selecteds = {}
    /\ transforms = [i \in Index |->
          IF i \in {CameraId, LeftId} THEN <<Vec(Fx(0), Fx(0))>>
          ELSE IF i = RightId THEN <<Vec(Fx(RightStart), Fx(RightStart))>>
          ELSE <<>>]
    /\ ui_transforms = [i \in Index |->
          IF i = LeftId THEN <<Vec(Fx(0), Fx(0))>>
          ELSE IF i = RightId THEN <<Vec(Fx(RightStart), Fx(RightStart))>>
          ELSE <<>>]
    /\ some_objects = [i \in Index |->
          IF i \in {LeftId, RightId} THEN <<[ordered_to |-> <<>>]>> ELSE <<>>]
    /\ sprite_render = [i \in Index |->
          IF i = LeftId THEN <<LeftSprite>>
          ELSE IF i = RightId THEN <<RightSprite>>
          ELSE <<>>]
    /\ marked = NoComponents
    /\ moves = 0
    /\ pre_step = transforms
    /\ marker_entity = <<>>

Min(S) == CHOOSE a \in S : \A b \in S : a <= b
Max(S) == CHOOSE a \in S : \A b \in S : a >= b

\* The indices Entities::build_entity may hand out: a freed index when there
\* is one, the next unused index otherwise.
NewIds == IF cache # {} THEN cache
          ELSE IF Index \ alive = {} THEN {}
          ELSE {Min(Index \ alive)}

\* The storages with the components of the entities in gone dropped.
Dropped(storage, gone) == [i \in Index |-> IF i \in gone THEN <<>> ELSE storage[i]]

\* ------------------------------------------------------- services (inputs)

\* Pointer positions the input service reports, in screen pixels.
Pointers == {<<Fx(400), Fx(300)>>, <<Fx(0), Fx(0)>>}

\* The window: 800 x 600 at scale 1.
Window == [width |-> Fx(800), height |-> Fx(600), hidpi |-> Fx(1)]

\* Entities carrying Selectable (the two objects of on_start).
Selectables == {e \in alive : some_objects[e] # <<>>}

\* The UI's selection service marks e Selected.
Select(e) ==
    /\ pc = "env"
    /\ e \in Selectables
    /\ e \notin selecteds
    /\ selecteds' = selecteds \cup {e}
    /\ UNCHANGED <<pc, alive, cache, killed, transforms, ui_transforms,
                   some_objects, sprite_render, marked, input,
                   screen_dimension, moves, pre_step, marker_entity>>

\* The UI's selection service takes Selected from e.
Deselect(e) ==
    /\ pc = "env"
    /\ e \in selecteds
    /\ selecteds' = selecteds \ {e}
    /\ UNCHANGED <<pc, alive, cache, killed, transforms, ui_transforms,
                   some_objects, sprite_render, marked, input,
                   screen_dimension, moves, pre_step, marker_entity>>

\* The input system polls the devices and the frame's systems start.
PollInput(mv, ms) ==
    /\ pc = "env"
    /\ input' = [move |-> mv, mouse |-> ms]
    /\ pc' = "mouse"
    /\ UNCHANGED <<alive, cache, killed, selecteds, transforms, ui_transforms,
                   some_objects, sprite_render, marked, screen_dimension,
                   moves, pre_step, marker_entity>>

\* Something outside the two systems deletes entity i with its components.
DeleteEntity(i) ==
    /\ pc = "env"
    /\ i \in alive
    /\ alive' = alive \ {i}
    /\ cache' = cache \cup {i}
    /\ selecteds' = selecteds \ {i}
    /\ transforms' = Dropped(transforms, {i})
    /\ ui_transforms' = Dropped(ui_transforms, {i})
    /\ some_objects' = Dropped(some_objects, {i})
    /\ sprite_render' = Dropped(sprite_render, {i})
    /\ marked' = Dropped(marked, {i})
    /\ UNCHANGED <<pc, killed, input, screen_dimension, moves, pre_step,
                   marker_entity>>

\* A marker entity is destroyed by something other than the lifecycle pass.
DestroyMarker(m) ==
    /\ sprite_render[m] = <<SelectedSprite>>
    /\ DeleteEntity(m)

\* A selectable entity is removed from the store.
RemoveSource(e) ==
    /\ some_objects[e] # <<>>
    /\ DeleteEntity(e)

\* ------------------------------------------------------------- MouseSystem

\* AcquireJoin without the join on Selected.
AcquireJoin_NotSelected == {e \in Index : /\ transforms[e] # <<>>
                                          /\ some_objects[e] # <<>>}

\* Target acquisition: the join of transforms, Selected and SomeObject.
AcquireJoin == {e \in Index : /\ transforms[e] # <<>>
                              /\ e \in selecteds
                              /\ some_objects[e] # <<>>}

\* ordered_to as the acquisition loop leaves it.
Acquire(so) ==
    [e \in Index |->
        IF e \in AcquireJoin /\ input.move = <<TRUE>>
        THEN <<[ordered_to |->
                  IF input.mouse # <<>>
                  THEN <<ScreenToWorld(input.mouse[1], screen_dimension)>>
                  ELSE <<>>]>>
        ELSE so[e]]

\* Motion integration: the join of transforms, UiTransform and SomeObject.
IntegrateJoin(so) == {e \in Index : /\ transforms[e] # <<>>
                                    /\ ui_transforms[e] # <<>>
                                    /\ so[e] # <<>>
                                    /\ so[e][1].ordered_to # <<>>}

\* A storage of translations with the step of each ordered entity appended
\* (the step is computed once, from the transform, and added to the transform
\* and, narrowed to f32, to the UiTransform; the narrowing is below the
\* resolution of the fixed point).
Integrate(storage, so) ==
    [e \in Index |->
        IF e \in IntegrateJoin(so)
        THEN <<VAdd(storage[e][1],
                    MovementStep(transforms[e][1], so[e][1].ordered_to[1]))>>
        ELSE storage[e]]

\* FollowJoin joined with Selected as well.
FollowJoin_SelectedOnly(so) == {e \in selecteds : /\ so[e] # <<>>
                                                  /\ marked[e] # <<>>
                                                  /\ so[e][1].ordered_to # <<>>
                                                  /\ IsAlive(marked[e][1])}

\* FollowJoin without the is_alive test on the marker.
FollowJoin_NoLiveness(so) == {e \in Index : /\ so[e] # <<>>
                                            /\ marked[e] # <<>>
                                            /\ so[e][1].ordered_to # <<>>}

\* Marker following: the join of SomeObject and MarkedAsSelected whose
\* entity is ordered and whose marker index resolves to a live entity.
FollowJoin(so) == {e \in Index : /\ so[e] # <<>>
                                 /\ marked[e] # <<>>
                                 /\ so[e][1].ordered_to # <<>>
                                 /\ IsAlive(marked[e][1])}

\* The marker's transform (a default one when it has none) stepped toward
\* the source's target, for each entity of the join in index order.
RECURSIVE FollowMarkers(_, _, _)
FollowMarkers(tr, so, es) ==
    IF es = {} THEN tr
    ELSE LET e == Min(es)
             m == marked[e][1]
             marker_transform == IF tr[m] # <<>> THEN tr[m][1]
                                 ELSE Vec(Fx(0), Fx(0))
             moved == VAdd(marker_transform,
                           MovementStep(marker_transform, so[e][1].ordered_to[1]))
         IN FollowMarkers([tr EXCEPT ![m] = <<moved>>], so, es \ {e})

MouseSystem_run ==
    /\ pc = "mouse"
    /\ LET so == Acquire(some_objects)
           advancing == IntegrateJoin(so) # {} \/ FollowJoin(so) # {}
       IN /\ advancing => moves < MaxMoves
          /\ some_objects' = so
          /\ transforms' = FollowMarkers(Integrate(transforms, so), so, FollowJoin(so))
          /\ ui_transforms' = Integrate(ui_transforms, so)
          /\ moves' = IF advancing THEN moves + 1 ELSE moves
    /\ pre_step' = transforms
    /\ pc' = "mark"
    /\ UNCHANGED <<alive, cache, killed, selecteds, sprite_render, marked,
                   input, screen_dimension, marker_entity>>

\* ------------------------------------------------------ MarkSelectedSystem

\* CreationJoin without the !marked term.
CreationJoin_NoMarkedCheck == {e \in alive : /\ transforms[e] # <<>>
                                             /\ e \in selecteds}

\* Creation pass, the join of entities, transforms, Selected and not
\* MarkedAsSelected.
CreationJoin == {e \in alive : /\ transforms[e] # <<>>
                               /\ e \in selecteds
                               /\ marked[e] = <<>>}

\* marker_transform after the loop: the last entity of the join, with a
\* clone of its transform.
MarkerTransform ==
    IF CreationJoin = {} THEN <<>>
    ELSE LET e == Max(CreationJoin)
         IN <<[e |-> e, t |-> transforms[e][1]]>>

\* MarkerClone giving the marker Transform::default().
MarkerClone_Default(t) == Vec(Fx(0), Fx(0))

\* The transform given to the marker entity.
MarkerClone(t) == t

\* Teardown pass, the join of entities, not Selected and MarkedAsSelected,
\* over the MarkedAsSelected storage mk.
TeardownJoin(mk) == {e \in alive : e \notin selecteds /\ mk[e] # <<>>}

\* The entities the teardown loop deletes, given the live indices al.
TeardownDeleted(al, mk) == {mk[e][1] : e \in {d \in TeardownJoin(mk) : mk[d][1] \in al}}

\* marker_to_be_removed after the loop: the last entity of the join.
MarkerToBeRemoved(mk) ==
    IF TeardownJoin(mk) = {} THEN <<>> ELSE <<Max(TeardownJoin(mk))>>

\* The MarkedAsSelected storage after the removal that follows the loop.
TeardownRemoved(mk) ==
    IF MarkerToBeRemoved(mk) = <<>> THEN mk
    ELSE [mk EXCEPT ![MarkerToBeRemoved(mk)[1]] = <<>>]

\* CreationInsert inserting the link in the body of the creation loop, on
\* every entity of the join.
CreationInsert_InLoop(m) ==
    [e \in Index |-> IF e \in CreationJoin THEN <<m>> ELSE marked[e]]

\* The MarkedAsSelected storage after marked.insert(e, new(&marker_entity)),
\* with m the index of the marker entity built.
CreationInsert(m) ==
    IF MarkerTransform = <<>> THEN marked
    ELSE [marked EXCEPT ![MarkerTransform[1].e] = <<m>>]

\* The lifecycle pass with index m taken for the marker entity, when one is built.
LifecyclePass(m) ==
    LET built == MarkerTransform # <<>>
        al == IF built THEN alive \cup {m} ELSE alive
        mk == CreationInsert(m)
    IN /\ alive' = al
       /\ cache' = IF built THEN cache \ {m} ELSE cache
       /\ transforms' = IF built
                        THEN [transforms EXCEPT ![m] = <<MarkerClone(MarkerTransform[1].t)>>]
                        ELSE transforms
       /\ sprite_render' = IF built
                           THEN [sprite_render EXCEPT ![m] = <<SelectedSprite>>]
                           ELSE sprite_render
       /\ marker_entity' = IF built
                           THEN <<[source |-> MarkerTransform[1].e, marker |-> m,
                                   t |-> MarkerTransform[1].t]>>
                           ELSE <<>>
       /\ killed' = killed \cup TeardownDeleted(al, mk)
       /\ marked' = TeardownRemoved(mk)

MarkSelectedSystem_run ==
    /\ pc = "mark"
    /\ IF MarkerTransform # <<>>
       THEN \E m \in NewIds : LifecyclePass(m)
       ELSE LifecyclePass(CameraId)
    /\ pc' = "maintain"
    /\ UNCHANGED <<selecteds, ui_transforms, some_objects, input,
                   screen_dimension, moves, pre_step>>

\* World::maintain at the end of the frame: the queued deletions take effect,
\* the deleted entities lose their components and their indices are freed.
Maintain ==
    /\ pc = "maintain"
    /\ alive' = alive \ killed
    /\ cache' = cache \cup killed
    /\ killed' = {}
    /\ selecteds' = selecteds \ killed
    /\ transforms' = Dropped(transforms, killed)
    /\ ui_transforms' = Dropped(ui_transforms, killed)
    /\ some_objects' = Dropped(some_objects, killed)
    /\ sprite_render' = Dropped(sprite_render, killed)
    /\ marked' = Dropped(marked, killed)
    /\ pc' = "env"
    /\ UNCHANGED <<input, screen_dimension, moves, pre_step, marker_entity>>

\* ----------------------------------------------------------- specifications

Init ==
    /\ pc = "env"
    /\ OnStart
    /\ input = [move |-> <<FALSE>>, mouse |-> <<>>]
    /\ screen_dimension = Window

Frame == MouseSystem_run \/ MarkSelectedSystem_run \/ Maintain

Selection == \E e \in Index : Select(e) \/ Deselect(e)

\* What a poll may report: the move action up, or down with the pointer on
\* one of Pointers or outside the capture area.
Polls == {[move |-> <<FALSE>>, mouse |-> <<>>], [move |-> <<TRUE>>, mouse |-> <<>>]}
         \cup {[move |-> <<TRUE>>, mouse |-> <<p>>] : p \in Pointers}

Polling == \E i \in Polls : PollInput(i.move, i.mouse)

Next == Selection \/ Polling \/ Frame

\* The program with its selection and input services.
Spec == Init /\ [][Next]_vars

External == \E i \in Index : DestroyMarker(i) \/ RemoveSource(i)

NextExt == Next \/ External

\* The program in a world where other code may delete entities between frames.
SpecExt == Init /\ [][NextExt]_vars

\* The first frame after on_start, for any window, selection and pointer.
Windows == {[width |-> Fx(w[1]), height |-> Fx(w[2]), hidpi |-> Fx(h)] :
               w \in {<<800, 600>>, <<1024, 768>>, <<640, 480>>}, h \in {1, 2}}

WidePointers == {<<Fx(x), Fx(y)>> : x \in {0, 400, 511, 800}, y \in {0, 300, 77}}

InitScreen ==
    /\ pc = "env"
    /\ OnStart
    /\ input = [move |-> <<FALSE>>, mouse |-> <<>>]
    /\ screen_dimension \in Windows

WidePolling == \E mv \in {<<>>, <<TRUE>>, <<FALSE>>},
                  ms \in {<<>>} \cup {<<p>> : p \in WidePointers} : PollInput(mv, ms)

NextScreen == Selection \/ WidePolling \/ MouseSystem_run

SpecScreen == InitScreen /\ [][NextScreen]_vars

\* Frames with the move action never down, entities removable between frames,
\* and the game loop running every frame.
IdlePolling == PollInput(<<FALSE>>, <<>>)

Removal == \E e \in Index : RemoveSource(e)

NextLoop == Selection \/ Removal \/ IdlePolling \/ Frame

SpecLoop == Init /\ [][NextLoop]_vars /\ WF_vars(IdlePolling) /\ WF_vars(Frame)

NextQuiet == Selection \/ IdlePolling \/ Frame

\* The fair frame loop with the selection service and no other code acting
\* on the store.
SpecQuiet == Init /\ [][NextQuiet]_vars /\ WF_vars(IdlePolling) /\ WF_vars(Frame)

\* ------------------------------------------------------------------ claims

\* Entity i is a live selection marker.
IsMarker(i) == i \in alive /\ sprite_render[i] = <<SelectedSprite>>

Markers == {i \in Index : IsMarker(i)}

\* The selectable (source) entities.
Sources == {e \in alive : some_objects[e] # <<>>}

Linked == {e \in Index : marked[e] # <<>>}

\* Selected entities whose marker is still to be created.
Pending == {e \in selecteds : marked[e] = <<>>}

\* A step that ends a frame.
EndOfTick == pc = "maintain" /\ pc' = "env"

\* A step that is the steering pass / the lifecycle pass of a frame.
SteeringPass == pc = "mouse" /\ pc' = "mark"
LifecyclePassStep == pc = "mark" /\ pc' = "maintain"

\* C1: after every tick a source entity holds a MarkerLink iff the marker the
\* link references is alive: no link to a dead marker, no live marker
\* without a link.
LinkMarkerCoupled ==
    /\ \A e \in Linked : IsMarker(marked[e][1])
    /\ \A m \in Markers : \E e \in Linked : marked[e] = <<m>>

C1_LinkIffMarkerAlive == [][EndOfTick => LinkMarkerCoupled']_vars

\* C2: after every tick the number of live markers is the number of Selected
\* entities minus those pending creation, and at most one entity is pending.
MarkerCount ==
    /\ Cardinality(Markers) = Cardinality(selecteds) - Cardinality(Pending)
    /\ Cardinality(Pending) <= 1

C2_MarkerExclusivity == [][EndOfTick => MarkerCount']_vars

\* C3: at the end of every tick each source entity is either not Selected with
\* no MarkerLink and no live marker, or Selected with a MarkerLink to a live
\* marker of its own; no other combination is reachable.
Unmarked(e) == e \notin selecteds /\ marked[e] = <<>>

MarkedSelected(e) ==
    /\ e \in selecteds
    /\ marked[e] # <<>>
    /\ IsMarker(marked[e][1])
    /\ \A o \in Linked : marked[o] = marked[e] => o = e

TwoStates ==
    /\ \A e \in Sources : Unmarked(e) \/ MarkedSelected(e)
    /\ Cardinality(Markers) = Cardinality({e \in Sources : MarkedSelected(e)})

C3_TwoStates == [][EndOfTick => TwoStates']_vars

\* C4: every entity that holds a MarkerLink and is not Selected when a
\* lifecycle pass starts has, by that same pass, its marker destroyed and its
\* MarkerLink removed.
C4_TeardownSamePass ==
    [][LifecyclePassStep =>
        \A e \in Linked : e \notin selecteds =>
            /\ marked'[e] = <<>>
            /\ IsAlive(marked[e][1]) => marked[e][1] \in killed']_vars

\* C5: when the marker of an entity was destroyed by something else while the
\* entity kept its MarkerLink, the lifecycle pass that finds the entity not
\* Selected removes the MarkerLink and deletes nothing on account of the dead
\* marker (an entity deleted at its index is one built in this very pass).
C5_IdempotentTeardown ==
    [][LifecyclePassStep =>
        \A e \in Linked : (e \notin selecteds /\ ~IsAlive(marked[e][1])) =>
            /\ marked'[e] = <<>>
            /\ marked[e][1] \in killed' =>
                  /\ marker_entity' # <<>>
                  /\ marker_entity'[1].marker = marked[e][1]]_vars

\* C10: a marker whose source entity was removed from the store is destroyed
\* by a later lifecycle pass: no marker stays alive without a source forever.
Orphan(m) == IsMarker(m) /\ \A e \in Linked : marked[e] # <<m>>

C10_OrphanMarkerDestroyed == \A m \in Index : Orphan(m) ~> ~IsMarker(m)

\* The entity e has a pending target after this frame's acquisition.
Ordered(e) == some_objects[e] # <<>> /\ some_objects[e][1].ordered_to # <<>>

Target(e) == some_objects[e][1].ordered_to[1]

\* The marker built by the previous frame's lifecycle pass is still alive and
\* referenced by its source alone.
FreshMarker ==
    /\ marker_entity # <<>>
    /\ IsMarker(marker_entity[1].marker)
    /\ \A e \in Linked : marked[e] = <<marker_entity[1].marker>>
                            <=> e = marker_entity[1].source

\* C6: a marker created by the lifecycle pass of tick T is not moved by the
\* steering pass of tick T: when the steering pass of tick T+1 starts it is
\* still where it was created, and that pass gives it its first step toward
\* the target of its source, when the source has one.
C6_FirstUpdateNextTick ==
    (pc = "mark" /\ FreshMarker) =>
        LET r == marker_entity[1]
        IN /\ pre_step[r.marker] = <<r.t>>
           /\ Ordered(r.source) =>
                 transforms[r.marker] =
                     <<VAdd(r.t, MovementStep(r.t, Target(r.source)))>>
           /\ ~Ordered(r.source) => transforms[r.marker] = <<r.t>>

C6_Witness ==
    /\ pc = "mark"
    /\ FreshMarker
    /\ Ordered(marker_entity[1].source)
    /\ ~marker_entity[1].t.nan
    /\ transforms[marker_entity[1].marker] # <<marker_entity[1].t>>

\* The lifecycle pass of this frame built a marker for an entity that was
\* given a move command by this frame's steering pass.
BuiltWhileCommanded ==
    /\ pc = "maintain"
    /\ marker_entity # <<>>
    /\ input.move = <<TRUE>>
    /\ input.mouse # <<>>

\* C7 (as claimed): the marker built in the tick in which its source received
\* a move command sits at the source's position from before that tick's
\* steering step.
C7_MarkerAtPreStep ==
    BuiltWhileCommanded =>
        transforms[marker_entity[1].marker] = pre_step[marker_entity[1].source]

\* C7 (amended): that marker sits at the source's position after that tick's
\* steering step, which differs from the position before the step.
C7_MarkerAtPostStep ==
    BuiltWhileCommanded =>
        LET r == marker_entity[1]
            before == pre_step[r.source][1]
        IN /\ transforms[r.marker] = transforms[r.source]
           /\ transforms[r.marker] =
                 <<VAdd(before, MovementStep(before, Target(r.source)))>>
           /\ ~before.nan => transforms[r.marker] # <<before>>

C7_Witness ==
    /\ BuiltWhileCommanded
    /\ ~pre_step[marker_entity[1].source][1].nan
    /\ transforms[marker_entity[1].marker] # pre_step[marker_entity[1].source]

\* Squared length of the vector from translation p to target t.
Dist2(p, t) == (t[1] - p.x) * (t[1] - p.x) + (t[2] - p.y) * (t[2] - p.y)

\* The entities the steering pass of this frame advanced from a translation
\* whose distance to the target, and whose step, are exact in fixed point.
ExactlyStepped ==
    {e \in Index :
        /\ Ordered(e)
        /\ pre_step[e] # <<>> /\ transforms[e] # <<>> /\ ui_transforms[e] # <<>>
        /\ ~pre_step[e][1].nan
        /\ LET D == Sqrt(Dist2(pre_step[e][1], Target(e)))
           IN /\ D * D = Dist2(pre_step[e][1], Target(e))
              /\ D > Fx(5)
              /\ (Fx(1) * (Target(e)[1] - pre_step[e][1].x)) % (5 * D) = 0
              /\ (Fx(1) * (Target(e)[2] - pre_step[e][1].y)) % (5 * D) = 0}

\* The step from p to q points from p toward t.
TowardTarget(p, q, t) ==
    /\ (q.x - p.x) * (t[2] - p.y) = (q.y - p.y) * (t[1] - p.x)
    /\ (q.x - p.x) * (t[1] - p.x) >= 0
    /\ (q.y - p.y) * (t[2] - p.y) >= 0

Commanded == {e \in selecteds : some_objects[e] # <<>> /\ transforms[e] # <<>>}

C9_ScreenToWorld ==
    (pc = "mark" /\ input.move = <<TRUE>> /\ input.mouse # <<>>) =>
        \A e \in Commanded :
            LET px == input.mouse[1][1]
                py == input.mouse[1][2]
                w == screen_dimension.width
                h == screen_dimension.height
                sc == screen_dimension.hidpi
            IN /\ Ordered(e)
               /\ 2 * sc * Target(e)[1] = Fx(1) * (2 * px - w)
               /\ 2 * sc * Target(e)[2] = Fx(1) * (h - 2 * py)
               /\ (w = Fx(800) /\ h = Fx(600) /\ sc = Fx(1)) =>
                     /\ (px = Fx(400) /\ py = Fx(300)) => Target(e) = <<0, 0>>
                     /\ (px = 0 /\ py = 0) => Target(e) = <<Fx(-400), Fx(300)>>

C9_Witness ==
    /\ pc = "mark"
    /\ input = [move |-> <<TRUE>>, mouse |-> <<<<0, 0>>>>]
    /\ screen_dimension = Window
    /\ \E e \in Commanded : Target(e) = <<Fx(-400), Fx(300)>>

\* C11: only a steering pass changes ordered_to, only on Selected entities
\* and only while the move command is active; an entity that is not
\* Selected keeps its ordered_to and is advanced toward it by every steering
\* pass.
C11_OrderedToFrame ==
    [][/\ \A e \in Index : some_objects'[e] # some_objects[e] =>
              (SteeringPass /\ e \in selecteds /\ input.move = <<TRUE>>)
       /\ SteeringPass =>
              \A e \in Sources : (e \notin selecteds /\ Ordered(e)) =>
                  transforms'[e] =
                      <<VAdd(transforms[e][1],
                             MovementStep(transforms[e][1], Target(e)))>>]_vars

C11_Witness ==
    /\ pc = "mark"
    /\ \E e \in Sources : /\ e \notin selecteds
                          /\ Ordered(e)
                          /\ ~pre_step[e][1].nan
                          /\ transforms[e] # pre_step[e]

\* C12: with the move command active and the pointer unavailable, the
\* steering pass sets ordered_to absent on every Selected movable entity and
\* moves neither those entities nor their markers.
C12_PointerUnavailable ==
    [][(SteeringPass /\ input.move = <<TRUE>> /\ input.mouse = <<>>) =>
          \A e \in Commanded :
              /\ some_objects'[e] = <<[ordered_to |-> <<>>]>>
              /\ transforms'[e] = transforms[e]
              /\ ui_transforms'[e] = ui_transforms[e]
              /\ marked[e] # <<>> =>
                    transforms'[marked[e][1]] = transforms[marked[e][1]]]_vars

\* C13: when the pending target of an entity equals its position, the
\* steering step leaves the position unchanged and defined; likewise for a
\* marker whose position equals the target of its source.
C13_ZeroVectorStops ==
    pc = "mark" =>
        /\ \A e \in Sources :
              (/\ Ordered(e)
               /\ ui_transforms[e] # <<>>
               /\ pre_step[e] = <<Vec(Target(e)[1], Target(e)[2])>>) =>
                  transforms[e] = pre_step[e]
        /\ \A e \in Sources :
              (/\ Ordered(e)
               /\ marked[e] # <<>>
               /\ IsAlive(marked[e][1])
               /\ pre_step[marked[e][1]] = <<Vec(Target(e)[1], Target(e)[2])>>
               /\ \A o \in Linked : marked[o] = marked[e] => o = e) =>
                  transforms[marked[e][1]] = pre_step[marked[e][1]]

\* Selected entities with a transform and no MarkerLink.
Candidates == {e \in alive : e \in selecteds /\ transforms[e] # <<>> /\ marked[e] = <<>>}

\* C14: a lifecycle pass creates at most one entity and inserts at most one
\* MarkerLink; all candidates but one stay without a link.
C14_OneCreationPerPass ==
    [][LifecyclePassStep =>
          /\ Cardinality(alive' \ alive) <= 1
          /\ Cardinality({e \in Index : marked'[e] # <<>> /\ marked'[e] # marked[e]}) <= 1
          /\ Cardinality({e \in Candidates : marked'[e] = <<>>}) >= Cardinality(Candidates) - 1]_vars
C14_Witness ==
    /\ pc = "maintain"
    /\ marker_entity # <<>>
    /\ \E e \in Sources : e \in selecteds /\ marked[e] = <<>>

\* C15: a lifecycle pass destroys at most one marker entity and removes at
\* most one MarkerLink.
C15_OneTeardownPerPass ==
    [][LifecyclePassStep =>
          /\ Cardinality(killed' \ killed) <= 1
          /\ Cardinality({e \in Index : marked[e] # <<>> /\ marked'[e] = <<>>}) <= 1]_vars

\* C16: the creation pass inserts a MarkerLink only on an entity that holds
\* none; a MarkerLink, once held, is removed or kept but never replaced.
C16_NoLinkOverwrite ==
    [][LifecyclePassStep =>
          /\ marker_entity' # <<>> => marked[marker_entity'[1].source] = <<>>
          /\ \A e \in Linked : marked'[e] \in {marked[e], <<>>}]_vars
C16_Witness ==
    /\ pc = "maintain"
    /\ marker_entity # <<>>
    /\ \E e \in Linked : e # marker_entity[1].source /\ e \in selecteds

\* C17: the steering pass creates and destroys no entity, adds and removes
\* no component, and leaves the Selected set and every MarkerLink unchanged.
C17_SteeringFrame ==
    [][SteeringPass =>
          /\ alive' = alive /\ cache' = cache /\ killed' = killed
          /\ selecteds' = selecteds
          /\ marked' = marked
          /\ sprite_render' = sprite_render
          /\ \A i \in Index : /\ (transforms'[i] = <<>>) = (transforms[i] = <<>>)
                              /\ (ui_transforms'[i] = <<>>) = (ui_transforms[i] = <<>>)
                              /\ (some_objects'[i] = <<>>) = (some_objects[i] = <<>>)]_vars
C17_Witness ==
    /\ pc = "mark"
    /\ \E e \in Sources : /\ transforms[e] # pre_step[e]
                          /\ marked[e] # <<>>
                          /\ IsMarker(marked[e][1])
                          /\ transforms[marked[e][1]] # pre_step[marked[e][1]]

\* C18: every entity the teardown pass destroys is a marker, and no entity
\* that is still Selected holds a MarkerLink to it.
C18_TeardownDestroysOwnMarker ==
    [][LifecyclePassStep =>
          \A d \in killed' \ killed :
              /\ sprite_render'[d] = <<SelectedSprite>>
              /\ \A o \in selecteds : marked'[o] # <<d>>]_vars

\* C19: no two distinct entities hold MarkerLinks with the same index.
C19_LinksDistinct ==
    \A a \in Linked : \A b \in Linked : marked[a] = marked[b] => a = b

\* Every Selected entity is linked to a live marker, no other entity holds a
\* link, and there are as many live markers as Selected entities.
Settled ==
    /\ \A e \in selecteds : marked[e] # <<>> /\ IsMarker(marked[e][1])
    /\ \A e \in Linked : e \in selecteds
    /\ Cardinality(Markers) = Cardinality(selecteds)

\* C20: once the Selected set stops changing, the store reaches and stays in
\* a settled state.
C20_EventuallySettled == <>[][selecteds' = selecteds]_vars => <>[]Settled

====
